---- MODULE Spec2Model ----
(***************************************************************************)
(* GitHub achievements dashboard: the App component (src/src/App.tsx) and  *)
(* the RepositoryList component (src/unnamed/part_000).                    *)
(*                                                                         *)
(* Time is counted in ticks, DAY ticks to the day (the source counts       *)
(* milliseconds, 1000*60*60*24 to the day); a timestamp is a tick number.  *)
(* A nullable value (UserData | null) is a sequence of length 0 or 1.      *)
(* A JavaScript number that need not be whole (the progress percentage)    *)
(* is an exact fraction [num, den]; floating-point rounding is not         *)
(* modelled.                                                               *)
(***************************************************************************)
EXTENDS Integers, Sequences, FiniteSets, TLC

\* ------------------------------------------------------------------ bounds

\* Ticks per day: 1000 * 60 * 60 * 24 ms in the source, scaled down.
DAY == 2

\* The clock of the state machine runs from 0 to MaxNow ticks.
MaxNow == 1
\* At most this many fetches of one resource are in flight at once.
MaxInflight == 2
\* Inputs of the pure functions: publicRepos, followers, elapsed days.
MaxPublicRepos == 6
MaxFollowers == 17
MaxDays == 740
\* Repository collections of the sort check: ids 1..MaxRepoId, length <= MaxRepoLen.
MaxRepoId == 4
MaxRepoLen == 3

\* ------------------------------------------------------------------ values

Null == <<>>
Some(v) == <<v>>

Range(s) == {s[i] : i \in 1..Len(s)}

\* The achievement ids App.tsx names, and one id ("other") that stands for
\* every catalog entry the switch of getAchievementProgress has no case for.
AchievementIds ==
  {"yolo", "quickdraw", "open-sourcerer", "heart-on-sleeve",
   "pair-extraordinaire", "pull-shark", "starstruck", "other"}

\* UserData as built from the response (avatarUrl and following are carried
\* verbatim and read by no logic; they are left out).
UserRecord(login, publicRepos, followers, createdAt) ==
  [login |-> login, publicRepos |-> publicRepos,
   followers |-> followers, createdAt |-> createdAt]

\* ------------------------------------------------------ achievement rules

\* simulateUnlockedAchievements with the age test written >= 365.
simulateUnlockedAchievementsAgeGeq(user, t) ==
  (IF user.publicRepos >= 2 THEN <<"yolo", "quickdraw">> ELSE <<>>)
  \o (IF user.publicRepos >= 5 THEN <<"open-sourcerer", "heart-on-sleeve">> ELSE <<>>)
  \o (IF user.followers >= 10 THEN <<"pair-extraordinaire">> ELSE <<>>)
  \o (IF t - user.createdAt >= 365 * DAY THEN <<"pull-shark">> ELSE <<>>)

\* simulateUnlockedAchievements: the array `unlocked` as the pushes build it,
\* evaluated at tick t (Date.now()).
simulateUnlockedAchievements(user, t) ==
  LET r1 == IF user.publicRepos >= 2 THEN <<"yolo", "quickdraw">> ELSE <<>>
      r2 == IF user.publicRepos >= 5
              THEN <<"open-sourcerer", "heart-on-sleeve">> ELSE <<>>
      r3 == IF user.followers >= 10 THEN <<"pair-extraordinaire">> ELSE <<>>
      accountAge == t - user.createdAt
      \* daysOld = accountAge / DAY is a real quotient: daysOld > 365 iff
      \* accountAge > 365 * DAY
      r4 == IF accountAge > 365 * DAY THEN <<"pull-shark">> ELSE <<>>
  IN r1 \o r2 \o r3 \o r4

\* An exact fraction n/d (d > 0), whole numbers kept with denominator 1.
Frac(n, d) == IF n % d = 0 THEN [num |-> n \div d, den |-> 1]
                           ELSE [num |-> n, den |-> d]

\* Math.min((n / d) * 100, 99)
MinRatio99(n, d) == IF 100 * n <= 99 * d THEN Frac(100 * n, d) ELSE Frac(99, 1)

\* getAchievementProgress(achievement) with the state it closes over:
\* ud is userData (Null or Some), ua is unlockedAchievements.
getAchievementProgress(id, ud, ua) ==
  IF ud = Null THEN Frac(0, 1)
  ELSE IF id \in Range(ua) THEN Frac(100, 1)
  ELSE LET u == ud[1] IN
    CASE id = "pull-shark" -> MinRatio99(u.publicRepos, 2)
      [] id = "starstruck" -> MinRatio99(u.followers, 16)
      [] id = "open-sourcerer" -> MinRatio99(u.publicRepos, 3)
      [] id = "pair-extraordinaire" -> MinRatio99(u.followers, 10)
      [] OTHER -> IF u.publicRepos > 0 THEN Frac(25, 1) ELSE Frac(0, 1)

\* ------------------------------------------------------------- formatDate

\* formatDate with the week threshold written <= 7.
formatDateWeekInclusive(date, t) ==
  LET diffInDays == (t - date) \div DAY IN
  IF diffInDays = 0 THEN "Updated today"
  ELSE IF diffInDays = 1 THEN "Updated yesterday"
  ELSE IF diffInDays <= 7 THEN "Updated " \o ToString(diffInDays) \o " days ago"
  ELSE IF diffInDays < 30
    THEN "Updated " \o ToString(diffInDays \div 7) \o " weeks ago"
  ELSE IF diffInDays < 365
    THEN "Updated " \o ToString(diffInDays \div 30) \o " months ago"
  ELSE "Updated " \o ToString(diffInDays \div 365) \o " years ago"

\* formatDate(dateString) at tick t: Math.floor of the elapsed days, then the
\* template strings.
formatDate(date, t) ==
  LET diffInDays == (t - date) \div DAY IN
  IF diffInDays = 0 THEN "Updated today"
  ELSE IF diffInDays = 1 THEN "Updated yesterday"
  ELSE IF diffInDays < 7 THEN "Updated " \o ToString(diffInDays) \o " days ago"
  ELSE IF diffInDays < 30
    THEN "Updated " \o ToString(diffInDays \div 7) \o " weeks ago"
  ELSE IF diffInDays < 365
    THEN "Updated " \o ToString(diffInDays \div 30) \o " months ago"
  ELSE "Updated " \o ToString(diffInDays \div 365) \o " years ago"

\* ------------------------------------------------------------ sortedRepos

\* A Repository: the fields the component's logic reads. A name is its
\* sequence of collation ranks.
Repo(id) ==
  [id |-> id,
   name |-> IF id % 2 = 0 THEN <<1, id>> ELSE <<id>>,
   stargazers_count |-> id % 3,
   updated_at |-> (id * 2) % 3]

\* a.localeCompare(b): negative, zero or positive, rank by rank, a proper
\* prefix first.
RECURSIVE localeCompare(_, _)
localeCompare(a, b) ==
  IF a = <<>> THEN (IF b = <<>> THEN 0 ELSE -1)
  ELSE IF b = <<>> THEN 1
  ELSE IF Head(a) # Head(b) THEN Head(a) - Head(b)
  ELSE localeCompare(Tail(a), Tail(b))

\* The comparator with the stars case ascending (a - b).
compareReposStarsAscending(a, b, mode) ==
  CASE mode = "stars" -> a.stargazers_count - b.stargazers_count
    [] mode = "name" -> localeCompare(a.name, b.name)
    [] OTHER -> b.updated_at - a.updated_at

\* The comparator handed to sort.
compareRepos(a, b, mode) ==
  CASE mode = "stars" -> b.stargazers_count - a.stargazers_count
    [] mode = "name" -> localeCompare(a.name, b.name)
    [] OTHER -> b.updated_at - a.updated_at

\* Array.prototype.sort is stable: x goes after every element that does not
\* compare greater than it.
RECURSIVE InsertStable(_, _, _)
InsertStable(x, s, mode) ==
  IF s = <<>> THEN <<x>>
  ELSE IF compareRepos(Head(s), x, mode) <= 0
    THEN <<Head(s)>> \o InsertStable(x, Tail(s), mode)
  ELSE <<x>> \o s

RECURSIVE SortStable(_, _)
SortStable(s, mode) ==
  IF s = <<>> THEN <<>>
  ELSE InsertStable(s[Len(s)], SortStable(SubSeq(s, 1, Len(s) - 1), mode), mode)

\* const sortedRepos = [...repos].sort(...)
sortedRepos(rs, mode) == SortStable(rs, mode)

\* ------------------------------------------------------------------ state

VARIABLES
  \* App (src/src/App.tsx)
  userData,              \* useKV 'github-user-data': Null or Some(UserRecord)
  unlockedAchievements,  \* useKV 'unlocked-achievements': sequence of ids
  isLoading,             \* useState(false)
  mainTab,               \* useState('achievements')
  startup,               \* loadCurrentUser: "awaitingUser" or "done"
  userInflight,          \* fetchUserData calls awaiting fetch, in issue order
  \* RepositoryList (src/unnamed/part_000), mounted while mainTab = "repositories"
  repos,                 \* useState([])
  repoLoading,           \* the component's own isLoading
  sortBy,                \* useState('updated')
  repoInflight,          \* fetchRepositories calls awaiting fetch, in issue order
  \* what the last step did that the user or the network sees
  toast,                 \* the toast it showed, "none" if none
  reposFetchStarted,     \* the fetchRepositories calls it made
  \* the environment
  now,                   \* the clock, in ticks
  \* history (read by no action's guard)
  storedAt,              \* the tick at which userData was last stored
  latestUser,            \* outcome of the most recently issued fetchUserData
  latestRepos,           \* outcome of the most recently issued fetchRepositories
  \* a call of a pure function and what it returned
  call,
  ret

appVars == <<userData, unlockedAchievements, isLoading, mainTab, startup,
             userInflight>>
listVars == <<repos, repoLoading, sortBy, repoInflight>>
histVars == <<storedAt, latestUser, latestRepos>>
pureVars == <<call, ret>>
vars == <<appVars, listVars, toast, reposFetchStarted, now, histVars, pureVars>>

\* ------------------------------------------------------------ environment

Users == {"octocat", "torvalds"}
Tabs == {"achievements", "repositories"}
SortModes == {"updated", "stars", "name"}

\* What GET /users/{username} may answer with status 200.
ServerProfiles(username) ==
  IF username = "octocat"
    THEN {UserRecord("octocat", 2, 0, 0 - 365 * DAY)}
    ELSE {UserRecord("torvalds", 0, 10, 0 - DAY)}

\* What GET /users/{username}/repos may answer with status 200.
ServerRepos(username) ==
  IF username = "octocat" THEN <<Repo(1), Repo(2)>> ELSE <<Repo(3)>>

RemoveAt(s, i) == SubSeq(s, 1, i - 1) \o SubSeq(s, i + 1, Len(s))

Outcome(status, value) == [status |-> status, value |-> value]
NoOutcome == Outcome("none", Null)
Pending == Outcome("pending", Null)

\* The request at index i is the most recently issued one.
IsLatest(inflight, latest, i) == i = Len(inflight) /\ latest.status = "pending"

NoCall == [fn |-> "none"]
NoRet == [done |-> FALSE]

\* ------------------------------------------------------------------- Init

\* After the first render: the key-value store holds nothing, or the profile
\* and unlocked ids a previous session stored; the effect has started
\* loadCurrentUser iff there is no profile. RepositoryList is not mounted.
Init ==
  /\ now = 0
  /\ storedAt = 0
  /\ \E restored \in {Null} \cup {Some(p) : p \in UNION {ServerProfiles(u) : u \in Users}} :
       /\ userData = restored
       /\ unlockedAchievements =
            IF restored = Null THEN <<>>
            ELSE simulateUnlockedAchievements(restored[1], 0)
       /\ startup = IF restored = Null THEN "awaitingUser" ELSE "done"
  /\ isLoading = FALSE
  /\ mainTab = "achievements"
  /\ userInflight = <<>>
  /\ repos = <<>>
  /\ repoLoading = FALSE
  /\ sortBy = "updated"
  /\ repoInflight = <<>>
  /\ toast = "none"
  /\ reposFetchStarted = 0
  /\ latestUser = NoOutcome
  /\ latestRepos = NoOutcome
  /\ call = NoCall
  /\ ret = NoRet

\* ----------------------------------------------------------------- App

\* fetchUserData(username) up to its first await: setIsLoading(true), fetch.
StartFetchUserData(username) ==
  /\ Len(userInflight) < MaxInflight
  /\ isLoading' = TRUE
  /\ userInflight' = Append(userInflight, username)
  /\ latestUser' = Pending

\* window.spark.user() resolves with a login: fetchUserData(user.login).
SparkUserResolves ==
  /\ startup = "awaitingUser"
  /\ \E login \in Users : StartFetchUserData(login)
  /\ startup' = "done"
  /\ toast' = "none"
  /\ reposFetchStarted' = 0
  /\ UNCHANGED <<userData, unlockedAchievements, mainTab, listVars, now,
                 storedAt, latestRepos, pureVars>>

\* window.spark.user() throws, or resolves without a login.
SparkUserFails ==
  /\ startup = "awaitingUser"
  /\ startup' = "done"
  /\ toast' = "none"
  /\ reposFetchStarted' = 0
  /\ UNCHANGED <<userData, unlockedAchievements, isLoading, mainTab,
                 userInflight, listVars, now, histVars, pureVars>>

\* UserProfileHeader's onSearch: fetchUserData(username).
Search ==
  /\ \E username \in Users : StartFetchUserData(username)
  /\ toast' = "none"
  /\ reposFetchStarted' = 0
  /\ UNCHANGED <<userData, unlockedAchievements, mainTab, startup, listVars,
                 now, storedAt, latestRepos, pureVars>>

\* fetchRepositories() up to its first await, for the username of the render.
StartFetchRepositories(username) ==
  /\ repoLoading' = TRUE
  /\ repoInflight' = Append(repoInflight, username)
  /\ latestRepos' = Pending
  /\ reposFetchStarted' = 1

\* The effect with userData, not the login, as its dependency.
UsernameEffectRunsOnAnyProfile(login) ==
  mainTab = "repositories" /\ userData # Null

\* RepositoryList's useEffect([username]) after a render in which the
\* username prop is `login`: it runs when the component is mounted and the
\* prop differs from the previous render's.
UsernameEffectRuns(login) ==
  mainTab = "repositories" /\ userData # Null /\ userData[1].login # login

\* The unlocked ids appended to the stored ones instead of replacing them.
StoreProfileMerges(user) ==
  /\ userData' = Some(user)
  /\ unlockedAchievements' =
       unlockedAchievements \o simulateUnlockedAchievements(user, now)
  /\ storedAt' = now

\* setUserData(user); simulateUnlockedAchievements(user), which ends in
\* setUnlockedAchievements(() => unlocked).
StoreProfile(user) ==
  /\ userData' = Some(user)
  /\ unlockedAchievements' = simulateUnlockedAchievements(user, now)
  /\ storedAt' = now

\* fetchUserData from the response on: status 200, the record is stored and
\* the unlocked ids recomputed; then RepositoryList re-renders with the new
\* login.
FetchUserSuccess ==
  \E i \in 1..Len(userInflight) : \E user \in ServerProfiles(userInflight[i]) :
    /\ StoreProfile(user)
    /\ toast' = "Profile loaded!"
    /\ isLoading' = FALSE
    /\ userInflight' = RemoveAt(userInflight, i)
    /\ latestUser' = IF IsLatest(userInflight, latestUser, i)
                       THEN Outcome("ok", Some(user)) ELSE latestUser
    /\ IF UsernameEffectRuns(user.login)
         THEN /\ Len(repoInflight) < MaxInflight
              /\ StartFetchRepositories(user.login)
              /\ UNCHANGED <<repos, sortBy>>
         ELSE /\ reposFetchStarted' = 0
              /\ UNCHANGED <<listVars, latestRepos>>
    /\ UNCHANGED <<mainTab, startup, now, pureVars>>

\* A failing end of fetchUserData that also clears the profile.
FetchUserFailedClearsProfile(i, message) ==
  /\ toast' = message
  /\ isLoading' = FALSE
  /\ userData' = Null
  /\ userInflight' = RemoveAt(userInflight, i)
  /\ latestUser' = IF IsLatest(userInflight, latestUser, i)
                     THEN Outcome("failed", Null) ELSE latestUser
  /\ reposFetchStarted' = 0
  /\ UNCHANGED <<unlockedAchievements, mainTab, startup, listVars,
                 now, storedAt, latestRepos, pureVars>>

\* What every failing end of fetchUserData does: a toast, setIsLoading(false).
FetchUserFailed(i, message) ==
  /\ toast' = message
  /\ isLoading' = FALSE
  /\ userInflight' = RemoveAt(userInflight, i)
  /\ latestUser' = IF IsLatest(userInflight, latestUser, i)
                     THEN Outcome("failed", Null) ELSE latestUser
  /\ reposFetchStarted' = 0
  /\ UNCHANGED <<userData, unlockedAchievements, mainTab, startup, listVars,
                 now, storedAt, latestRepos, pureVars>>

\* status 404
FetchUserNotFound ==
  \E i \in 1..Len(userInflight) : FetchUserFailed(i, "User not found")

\* any other non-ok status
FetchUserServerError ==
  \E i \in 1..Len(userInflight) : FetchUserFailed(i, "Failed to fetch user data")

\* fetch or response.json() throws
FetchUserNetworkError ==
  \E i \in 1..Len(userInflight) :
    FetchUserFailed(i, "Network error: Could not connect to GitHub API.")

\* Tabs onValueChange={setMainTab}. The repositories trigger is disabled
\* without a profile. TabsContent mounts RepositoryList when its tab becomes
\* active (its effect fetches) and unmounts it when the tab is left: the
\* component's state is gone and responses still in flight set nothing.
SetMainTab ==
  \E tab \in Tabs :
    /\ tab # mainTab
    /\ tab = "repositories" => userData # Null
    /\ mainTab' = tab
    /\ repos' = <<>>
    /\ sortBy' = "updated"
    /\ IF tab = "repositories"
         THEN /\ repoLoading' = TRUE
              /\ repoInflight' = <<userData[1].login>>
              /\ latestRepos' = Pending
              /\ reposFetchStarted' = 1
         ELSE /\ repoLoading' = FALSE
              /\ repoInflight' = <<>>
              /\ latestRepos' = NoOutcome
              /\ reposFetchStarted' = 0
    /\ toast' = "none"
    /\ UNCHANGED <<userData, unlockedAchievements, isLoading, startup,
                   userInflight, now, storedAt, latestUser, pureVars>>

\* ------------------------------------------------------- RepositoryList

\* fetchRepositories from the response on: status 200, setRepos(data).
FetchReposSuccess ==
  \E i \in 1..Len(repoInflight) :
    /\ repos' = ServerRepos(repoInflight[i])
    /\ repoLoading' = FALSE
    /\ repoInflight' = RemoveAt(repoInflight, i)
    /\ latestRepos' = IF IsLatest(repoInflight, latestRepos, i)
                        THEN Outcome("ok", ServerRepos(repoInflight[i]))
                        ELSE latestRepos
    /\ toast' = "none"
    /\ reposFetchStarted' = 0
    /\ UNCHANGED <<appVars, sortBy, now, storedAt, latestUser, pureVars>>

\* A failing end of fetchRepositories that also clears the list.
FetchReposFailedClearsList(i, message) ==
  /\ toast' = message
  /\ repos' = <<>>
  /\ repoLoading' = FALSE
  /\ repoInflight' = RemoveAt(repoInflight, i)
  /\ latestRepos' = IF IsLatest(repoInflight, latestRepos, i)
                      THEN Outcome("failed", Null) ELSE latestRepos
  /\ reposFetchStarted' = 0
  /\ UNCHANGED <<appVars, sortBy, now, storedAt, latestUser, pureVars>>

\* What every failing end of fetchRepositories does: a toast,
\* setIsLoading(false).
FetchReposFailed(i, message) ==
  /\ toast' = message
  /\ repoLoading' = FALSE
  /\ repoInflight' = RemoveAt(repoInflight, i)
  /\ latestRepos' = IF IsLatest(repoInflight, latestRepos, i)
                      THEN Outcome("failed", Null) ELSE latestRepos
  /\ reposFetchStarted' = 0
  /\ UNCHANGED <<appVars, repos, sortBy, now, storedAt, latestUser, pureVars>>

\* a non-ok status
FetchReposServerError ==
  \E i \in 1..Len(repoInflight) :
    FetchReposFailed(i, "Failed to fetch repositories")

\* fetch or response.json() throws
FetchReposNetworkError ==
  \E i \in 1..Len(repoInflight) :
    FetchReposFailed(i, "Network error: Could not load repositories")

\* One of the three sort buttons, rendered when the list is neither loading
\* nor empty: setSortBy(mode).
SetSortBy ==
  \E mode \in SortModes :
    /\ mainTab = "repositories"
    /\ ~repoLoading
    /\ repos # <<>>
    /\ sortBy' = mode
    /\ toast' = "none"
    /\ reposFetchStarted' = 0
    /\ UNCHANGED <<appVars, repos, repoLoading, repoInflight, now, histVars,
                   pureVars>>

\* Time passes.
Tick ==
  /\ now < MaxNow
  /\ now' = now + 1
  /\ toast' = "none"
  /\ reposFetchStarted' = 0
  /\ UNCHANGED <<appVars, listVars, histVars, pureVars>>

Next ==
  \/ SparkUserResolves
  \/ SparkUserFails
  \/ Search
  \/ FetchUserSuccess
  \/ FetchUserNotFound
  \/ FetchUserServerError
  \/ FetchUserNetworkError
  \/ SetMainTab
  \/ FetchReposSuccess
  \/ FetchReposServerError
  \/ FetchReposNetworkError
  \/ SetSortBy
  \/ Tick

Spec == Init /\ [][Next]_vars

\* ------------------------------------------------- the pure functions

\* The state a pure function is called in: a fresh App.
FreshApp ==
  /\ now = 0
  /\ storedAt = 0
  /\ userData = Null
  /\ unlockedAchievements = <<>>
  /\ startup = "done"
  /\ isLoading = FALSE
  /\ mainTab = "achievements"
  /\ userInflight = <<>>
  /\ repos = <<>>
  /\ repoLoading = FALSE
  /\ sortBy = "updated"
  /\ repoInflight = <<>>
  /\ toast = "none"
  /\ reposFetchStarted = 0
  /\ latestUser = NoOutcome
  /\ latestRepos = NoOutcome

\* Account ages around the 365-day threshold, and a new account.
AgeTicks == {0} \cup ((365 * DAY - DAY)..(365 * DAY + DAY))

PureUsers ==
  {UserRecord("octocat", pr, f, 0 - a) :
     pr \in 0..MaxPublicRepos, f \in 0..MaxFollowers, a \in {0}}

EvaluateCalls ==
  {[fn |-> "simulateUnlockedAchievements",
    user |-> UserRecord("octocat", pr, f, 0 - a), now |-> t] :
     pr \in 0..MaxPublicRepos, f \in 0..MaxFollowers, a \in AgeTicks,
     t \in 0..MaxNow}

\* The unlocked ids handed to getAchievementProgress: none, one id alone, or
\* the two ids of the first rule.
UnlockedInputs ==
  {<<>>, <<"yolo", "quickdraw">>} \cup {<<id>> : id \in AchievementIds}

ProgressCalls ==
  {[fn |-> "getAchievementProgress", id |-> id, user |-> u, unlocked |-> ua] :
     id \in AchievementIds, u \in PureUsers, ua \in UnlockedInputs}

\* Timestamps from DAY ticks in the future back to MaxDays days and more.
FormatDateCalls ==
  {[fn |-> "formatDate", date |-> 0 - e, now |-> 0] :
     e \in (0 - DAY)..(MaxDays * DAY + DAY - 1)}

InitPure ==
  /\ FreshApp
  /\ call \in EvaluateCalls \cup ProgressCalls \cup FormatDateCalls
  /\ ret = NoRet

Return(value) ==
  /\ ~ret.done
  /\ ret' = [done |-> TRUE, val |-> value]
  /\ UNCHANGED <<appVars, listVars, toast, reposFetchStarted, now, histVars, call>>

CallEvaluate ==
  /\ call.fn = "simulateUnlockedAchievements"
  /\ Return(simulateUnlockedAchievements(call.user, call.now))

CallProgress ==
  /\ call.fn = "getAchievementProgress"
  /\ Return(getAchievementProgress(call.id, Some(call.user), call.unlocked))

CallFormatDate ==
  /\ call.fn = "formatDate"
  /\ Return(formatDate(call.date, call.now))

NextPure ==
  \/ CallEvaluate
  \/ CallProgress
  \/ CallFormatDate

SpecPure == InitPure /\ [][NextPure]_vars

\* ------------------------------------------------ the sort of the list

\* The repository collections a response may hold: distinct repositories
\* with ids 1..MaxRepoId, at least one and at most MaxRepoLen of them.
RECURSIVE SeqsOver(_, _)
SeqsOver(S, n) ==
  IF n = 0 THEN {<<>>}
  ELSE LET shorter == SeqsOver(S, n - 1) IN
    shorter \cup {Append(s, x) : s \in {q \in shorter : Len(q) = n - 1}, x \in S}

RepoCollections ==
  {[i \in 1..Len(s) |-> Repo(s[i])] :
     s \in {q \in SeqsOver(1..MaxRepoId, MaxRepoLen) :
              Len(q) > 0 /\ Cardinality(Range(q)) = Len(q)}}

\* RepositoryList shown for a loaded profile, its fetch answered.
InitSort ==
  /\ now = 0
  /\ storedAt = 0
  /\ \E user \in ServerProfiles("octocat") :
       /\ userData = Some(user)
       /\ unlockedAchievements = simulateUnlockedAchievements(user, 0)
  /\ startup = "done"
  /\ isLoading = FALSE
  /\ mainTab = "repositories"
  /\ userInflight = <<>>
  /\ repos \in RepoCollections
  /\ repoLoading = FALSE
  /\ sortBy = "updated"
  /\ repoInflight = <<>>
  /\ toast = "none"
  /\ reposFetchStarted = 0
  /\ latestUser = NoOutcome
  /\ latestRepos = Outcome("ok", repos)
  /\ call = NoCall
  /\ ret = NoRet

NextSort == SetSortBy

SpecSort == InitSort /\ [][NextSort]_vars

\* ----------------------------------------------------------- properties

UserFailToasts ==
  {"User not found", "Failed to fetch user data",
   "Network error: Could not connect to GitHub API."}
RepoFailToasts ==
  {"Failed to fetch repositories", "Network error: Could not load repositories"}

\* What RepositoryList renders: sortedRepos.map(...)
displayed == sortedRepos(repos, sortBy)

\* C1: the ids simulateUnlockedAchievements returns are exactly those of the
\* rule table: yolo and quickdraw iff publicRepos >= 2, open-sourcerer and
\* heart-on-sleeve iff publicRepos >= 5, pair-extraordinaire iff
\* followers >= 10, pull-shark iff the account is more than 365 days old; so
\* publicRepos >= 5 gives a superset of the four repository ids, and
\* followers < 10, publicRepos < 2, age <= 365 days gives the empty set.
C1_UnlockedIsRuleTable ==
  (call.fn = "simulateUnlockedAchievements" /\ ret.done) =>
    LET u == call.user
        got == Range(ret.val)
        ageTicks == call.now - u.createdAt
    IN /\ \A id \in AchievementIds \cup got :
            id \in got <=>
              \/ id \in {"yolo", "quickdraw"} /\ u.publicRepos >= 2
              \/ id \in {"open-sourcerer", "heart-on-sleeve"} /\ u.publicRepos >= 5
              \/ id = "pair-extraordinaire" /\ u.followers >= 10
              \/ id = "pull-shark" /\ ageTicks > 365 * DAY
       /\ u.publicRepos >= 5 =>
            {"yolo", "quickdraw", "open-sourcerer", "heart-on-sleeve"} \subseteq got
       /\ (u.followers < 10 /\ u.publicRepos < 2 /\ ageTicks <= 365 * DAY) =>
            got = {}

\* A call with publicRepos >= 5, followers < 10 and an account one tick older
\* than 365 days has returned the four repository ids and pull-shark.
C1_Witness ==
  /\ call.fn = "simulateUnlockedAchievements"
  /\ ret.done
  /\ call.user.publicRepos >= 5
  /\ call.user.followers < 10
  /\ call.now - call.user.createdAt = 365 * DAY + 1
  /\ Range(ret.val) =
       {"yolo", "quickdraw", "open-sourcerer", "heart-on-sleeve", "pull-shark"}

\* C2: a failed fetch leaves the prior state untouched: a step that ends
\* fetchUserData in 404, another status or a transport failure, like the
\* step that issued it, leaves userData and unlockedAchievements as they
\* were, and a step that ends fetchRepositories in a failure leaves repos as
\* it was.
C2_FailedFetchLeavesState ==
  [][/\ (toast' \in UserFailToasts \/ Len(userInflight') > Len(userInflight)) =>
          (userData' = userData /\ unlockedAchievements' = unlockedAchievements)
     /\ toast' \in RepoFailToasts => repos' = repos]_vars

\* A repository fetch has just failed while a list fetched earlier is held.
C2_Witness == toast \in RepoFailToasts /\ repos # <<>>

\* C3: in every reachable state getAchievementProgress returns exactly 100
\* for every id in unlockedAchievements, and no state has ids unlocked
\* without a profile.
C3_UnlockedProgressIs100 ==
  /\ \A id \in Range(unlockedAchievements) :
       getAchievementProgress(id, userData, unlockedAchievements) = Frac(100, 1)
  /\ ~(unlockedAchievements # <<>> /\ userData = Null)

\* A profile lookup has just failed with 404 while ids are unlocked.
C3_Witness == toast = "User not found" /\ unlockedAchievements # <<>>

\* C4: for an id not unlocked, getAchievementProgress returns a whole number
\* in 0..99 equal to min(floor(100*n/d), 99) with (n, d) per id, and 25 or 0
\* for every other id.
C4_ProgressIsFlooredRatio ==
  (call.fn = "getAchievementProgress" /\ ret.done
     /\ call.id \notin Range(call.unlocked)) =>
    LET u == call.user
        Floor99(n, d) == IF (100 * n) \div d < 99 THEN (100 * n) \div d ELSE 99
        expected ==
          CASE call.id = "pull-shark" -> Floor99(u.publicRepos, 2)
            [] call.id = "starstruck" -> Floor99(u.followers, 16)
            [] call.id = "open-sourcerer" -> Floor99(u.publicRepos, 3)
            [] call.id = "pair-extraordinaire" -> Floor99(u.followers, 10)
            [] OTHER -> IF u.publicRepos > 0 THEN 25 ELSE 0
    IN /\ ret.val.den = 1
       /\ ret.val.num \in 0..99
       /\ ret.val.num = expected

\* The key a mode orders by is in order along s.
IsOrdered(s, mode) ==
  \A i \in 1..(Len(s) - 1) :
    CASE mode = "stars" -> s[i].stargazers_count >= s[i + 1].stargazers_count
      [] mode = "name" -> localeCompare(s[i].name, s[i + 1].name) <= 0
      [] OTHER -> s[i].updated_at >= s[i + 1].updated_at

IsPermutation(s, r) ==
  /\ Len(s) = Len(r)
  /\ \A x \in Range(s) \cup Range(r) :
       Cardinality({i \in 1..Len(s) : s[i] = x})
         = Cardinality({i \in 1..Len(r) : r[i] = x})

C5_DisplayedIsSorted ==
  mainTab = "repositories" =>
    /\ IsPermutation(displayed, repos)
    /\ IsOrdered(displayed, sortBy)
    /\ sortedRepos(displayed, sortBy) = displayed
    /\ (sortBy = "stars" /\ repos # <<>>) =>
         \A i \in 1..Len(repos) :
           displayed[1].stargazers_count >= repos[i].stargazers_count

\* C5: in each sort mode the displayed sequence is a permutation of repos in
\* the order of the mode's key (stars: the first has the most stars), sorting
\* it again in the same mode changes nothing, and a change of mode starts no
\* fetch and leaves repos itself as it was.
C5_SortIsPureReordering ==
  /\ []C5_DisplayedIsSorted
  /\ [][sortBy' # sortBy =>
          /\ repos' = repos
          /\ repoInflight' = repoInflight
          /\ reposFetchStarted' = 0]_vars

\* Three repositories shown by stars, in another order than fetched.
C5_Witness ==
  /\ mainTab = "repositories"
  /\ sortBy = "stars"
  /\ Len(repos) = 3
  /\ displayed # repos

\* The string the claim gives for d whole days.
C6_Expected(d) ==
  IF d = 0 THEN "Updated today"
  ELSE IF d = 1 THEN "Updated yesterday"
  ELSE IF d < 7 THEN "Updated " \o ToString(d) \o " days ago"
  ELSE IF d < 30
    THEN "Updated " \o ToString(CHOOSE w \in 1..4 : 7 * w <= d /\ d < 7 * w + 7)
           \o " weeks ago"
  ELSE IF d < 365
    THEN "Updated " \o ToString(CHOOSE m \in 1..12 : 30 * m <= d /\ d < 30 * m + 30)
           \o " months ago"
  ELSE "Updated " \o
         ToString(CHOOSE y \in 1..(MaxDays + 1) : 365 * y <= d /\ d < 365 * y + 365)
         \o " years ago"

\* C6: for d >= 0 whole days elapsed formatDate returns today, yesterday,
\* d days, floor(d/7) weeks, floor(d/30) months or floor(d/365) years ago, by
\* the thresholds 7, 30 and 365; exactly 7 days is '1 weeks ago', 30 days
\* '1 months ago', 365 days '1 years ago'.
C6_FormatDateByDays ==
  (call.fn = "formatDate" /\ ret.done) =>
    LET elapsed == call.now - call.date IN
    \A d \in 0..MaxDays :
      (d * DAY <= elapsed /\ elapsed < d * DAY + DAY) =>
        /\ ret.val = C6_Expected(d)
        /\ d = 7 => ret.val = "Updated 1 weeks ago"
        /\ d = 30 => ret.val = "Updated 1 months ago"
        /\ d = 365 => ret.val = "Updated 1 years ago"

\* formatDate has answered for a timestamp exactly 7 days old.
C6_Witness ==
  /\ call.fn = "formatDate"
  /\ ret.done
  /\ call.now - call.date = 7 * DAY
  /\ ret.val = "Updated 1 weeks ago"

\* C7: once no response is outstanding, the stored profile is the one
\* returned for the most recently issued fetchUserData, and the repository
\* list the one returned for the most recently issued fetchRepositories
\* (stale responses are discarded).
C7_LatestResponseWins ==
  /\ (userInflight = <<>> /\ latestUser.status = "ok") =>
       userData = latestUser.value
  /\ (mainTab = "repositories" /\ repoInflight = <<>> /\ latestRepos.status = "ok") =>
       repos = latestRepos.value

\* C8: the two persisted slots are consistent: unlockedAchievements is
\* simulateUnlockedAchievements of the stored profile, evaluated when that
\* profile was stored (and empty without a profile), with no id kept from an
\* earlier profile.
C8_SlotsConsistent ==
  IF userData = Null
    THEN unlockedAchievements = <<>>
    ELSE unlockedAchievements = simulateUnlockedAchievements(userData[1], storedAt)

\* Two lookups overlapped and the response of the earlier one arrived last:
\* the profile is torvalds, stored over octocat, with torvalds' id alone.
C8_Witness ==
  /\ userInflight = <<>>
  /\ latestUser.status = "ok"
  /\ latestUser.value # userData
  /\ userData # Null
  /\ userData[1].login = "torvalds"
  /\ unlockedAchievements = <<"pair-extraordinaire">>

\* C9: while RepositoryList stays shown, a step that changes the login starts
\* exactly one fetchRepositories, for the new login, and any other step
\* (a profile load with the same login among them) starts none; a failed
\* repository fetch ends its request and starts no other.
C9_FetchPerUsernameChange ==
  [][(mainTab = "repositories" /\ mainTab' = "repositories") =>
       IF userData'[1].login # userData[1].login
         THEN /\ reposFetchStarted' = 1
              /\ repoInflight' = Append(repoInflight, userData'[1].login)
         ELSE /\ reposFetchStarted' = 0
              /\ Len(repoInflight') <= Len(repoInflight)
              /\ toast' \in RepoFailToasts =>
                   Len(repoInflight') = Len(repoInflight) - 1]_vars

\* A profile load has just changed the login under the shown list and
\* started a repository fetch.
C9_Witness ==
  /\ mainTab = "repositories"
  /\ toast = "Profile loaded!"
  /\ reposFetchStarted = 1

\* C10: isLoading is true iff a fetchUserData call is in flight.
C10_LoadingTracksInflight == isLoading <=> userInflight # <<>>

====
